---- MODULE Spec2Model ----
(***************************************************************************)
(* A model of superset/sql/parse.py: the Table value type, the KQL         *)
(* splitter (split_kql), the statement constructors, the mutation          *)
(* classifier, the table extractor with its CTE exclusion, and the script  *)
(* level settings fold.                                                    *)
(*                                                                         *)
(* Text is a sequence of one-character strings.  Python's None is the      *)
(* model value None.  Each component of the program has its own            *)
(* specification (SpecSplit, SpecStatement, SpecTable, SpecExtract,        *)
(* SpecMutating, SpecSettings); the variables of the other components      *)
(* stay idle in it.                                                        *)
(***************************************************************************)
EXTENDS Integers, Sequences, FiniteSets, TLC

VARIABLES
    \* split_kql (parse.py:372-413)
    kql, query, i, state, statement_start, statements, pc,
    \* a Python set of Table values (parse.py:94-118)
    tableSet,
    \* extract_tables_from_statement (parse.py:560-630): its argument, the
    \* local list `sources`, the returned set, and where the call stands
    statement, sources, tables, xpc,
    \* BaseSQLStatement.__init__ (parse.py:148-159): the class, the arguments
    \* (the text, or what sqlglot.parse makes of it), and the object built
    cls, engine, statement_text, units, parsed, stmt_tables, error, cpc,
    \* SQLStatement.is_mutating (parse.py:298-333): the statement, its
    \* engine, the value returned and the statements built on the way
    ast, ast_engine, mutating, constructed, mpc,
    \* SQLScript.get_settings (parse.py:536-549): the statements, the local
    \* dict `settings`, the loop index
    script, settings, idx, spc,
    \* KustoKQLStatement.split_query (parse.py:433-446): the arguments, the
    \* list split_kql returned, the statements built so far, the error raised
    split_text, split_engine, kql_statements, built, split_error, seg, qpc

splitVars == <<kql, query, i, state, statement_start, statements, pc>>
extractVars == <<statement, sources, tables, xpc>>
initVars == <<cls, engine, statement_text, units, parsed, stmt_tables, error, cpc>>
mutatingVars == <<ast, ast_engine, mutating, constructed, mpc>>
settingsVars == <<script, settings, idx, spc>>
splitQueryVars == <<split_text, split_engine, kql_statements, built, split_error, seg, qpc>>
vars == <<splitVars, tableSet, extractVars, initVars, mutatingVars, settingsVars,
          splitQueryVars>>

\* What the actions of one component leave alone: the other components.
notSplit == <<tableSet, extractVars, initVars, mutatingVars, settingsVars, splitQueryVars>>
notTable == <<splitVars, extractVars, initVars, mutatingVars, settingsVars, splitQueryVars>>
notExtract == <<splitVars, tableSet, initVars, mutatingVars, settingsVars, splitQueryVars>>
notInit == <<splitVars, tableSet, extractVars, mutatingVars, settingsVars, splitQueryVars>>
notMutating == <<splitVars, tableSet, extractVars, initVars, settingsVars, splitQueryVars>>
notSettings == <<splitVars, tableSet, extractVars, initVars, mutatingVars, splitQueryVars>>
notSplitQuery == <<splitVars, tableSet, extractVars, initVars, mutatingVars, settingsVars>>

\* Python's None, where a text (a sequence of characters) may stand.
None == <<"None">>

Max(a, b) == IF a > b THEN a ELSE b
Min(a, b) == IF a < b THEN a ELSE b

\* All sequences over S of length 0..n.
SeqsUpTo(S, n) == UNION {[1..k -> S] : k \in 0..n}

(***************************************************************************)
(* Python string primitives used by the source.                            *)
(***************************************************************************)

\* s[n] with Python's negative indexing (n = -1 is the last character).
PyAt(s, n) == IF n < 0 THEN s[Len(s) + n + 1] ELSE s[n + 1]

\* A slice bound as Python normalises it.
PyBound(n, len) == IF n < 0 THEN Max(n + len, 0) ELSE Min(n, len)

\* s[a:b]
PySlice(s, a, b) ==
    LET lo == PyBound(a, Len(s))
        hi == PyBound(b, Len(s))
    IN  IF lo >= hi THEN <<>> ELSE SubSeq(s, lo + 1, hi)

\* s.endswith(c) for a one-character c
EndsWith(s, c) == Len(s) > 0 /\ s[Len(s)] = c

Whitespace == {" "}

\* s.strip()
RECURSIVE LStrip(_)
LStrip(s) == IF Len(s) > 0 /\ s[1] \in Whitespace THEN LStrip(Tail(s)) ELSE s
RECURSIVE RStrip(_)
RStrip(s) ==
    IF Len(s) > 0 /\ s[Len(s)] \in Whitespace THEN RStrip(SubSeq(s, 1, Len(s) - 1)) ELSE s
Strip(s) == LStrip(RStrip(s))

\* sep.join(parts)
RECURSIVE Join(_, _)
Join(parts, sep) ==
    IF Len(parts) = 0 THEN <<>>
    ELSE IF Len(parts) = 1 THEN parts[1]
    ELSE parts[1] \o sep \o Join(Tail(parts), sep)

(***************************************************************************)
(* split_kql                                                               *)
(***************************************************************************)

OUTSIDE_STRING == "OUTSIDE_STRING"
INSIDE_SINGLE_QUOTED_STRING == "INSIDE_SINGLE_QUOTED_STRING"
INSIDE_DOUBLE_QUOTED_STRING == "INSIDE_DOUBLE_QUOTED_STRING"
INSIDE_MULTILINE_STRING == "INSIDE_MULTILINE_STRING"

KQLSplitState ==
    {OUTSIDE_STRING, INSIDE_SINGLE_QUOTED_STRING,
     INSIDE_DOUBLE_QUOTED_STRING, INSIDE_MULTILINE_STRING}

SEMI == ";"
SQUOTE == "'"
DQUOTE == "\""
\* The backtick character (the lexer of TLA+ strings has no backtick).
TICK == "BACKTICK"
BACKSLASH == "\\"

\* Mutant of WithSeparator: the separator is never appended.
NoTrailingSeparator(text) == text

\* query = kql if kql.endswith(";") else kql + ";"
WithSeparator(text) == IF EndsWith(text, SEMI) THEN text ELSE Append(text, SEMI)

\* The scanner's local variables.
ScanStart == [state |-> OUTSIDE_STRING, statement_start |-> 0, statements |-> <<>>]

\* Mutant of KqlStep: the multi-line fence is recognised after two backticks
\* (a look-back of one character) instead of three.
KqlStepDoubleTick(q, n, loc) ==
    LET character == PyAt(q, n) IN
    IF loc.state = OUTSIDE_STRING THEN
        IF character = SEMI THEN
            [loc EXCEPT !.statements = Append(@, PySlice(q, loc.statement_start, n)),
                        !.statement_start = n + 1]
        ELSE IF character = SQUOTE THEN [loc EXCEPT !.state = INSIDE_SINGLE_QUOTED_STRING]
        ELSE IF character = DQUOTE THEN [loc EXCEPT !.state = INSIDE_DOUBLE_QUOTED_STRING]
        ELSE IF character = TICK /\ PySlice(q, n - 1, n) = <<TICK>>
             THEN [loc EXCEPT !.state = INSIDE_MULTILINE_STRING]
        ELSE loc
    ELSE IF loc.state = INSIDE_SINGLE_QUOTED_STRING
            /\ character = SQUOTE /\ PyAt(q, n - 1) # BACKSLASH
         THEN [loc EXCEPT !.state = OUTSIDE_STRING]
    ELSE IF loc.state = INSIDE_DOUBLE_QUOTED_STRING
            /\ character = DQUOTE /\ PyAt(q, n - 1) # BACKSLASH
         THEN [loc EXCEPT !.state = OUTSIDE_STRING]
    ELSE IF loc.state = INSIDE_MULTILINE_STRING
            /\ character = TICK /\ PySlice(q, n - 1, n) = <<TICK>>
         THEN [loc EXCEPT !.state = OUTSIDE_STRING]
    ELSE loc

\* Mutant of KqlStep: the next segment starts at the separator, not after it.
KqlStepStartAtSeparator(q, n, loc) ==
    LET character == PyAt(q, n) IN
    IF loc.state = OUTSIDE_STRING THEN
        IF character = SEMI THEN
            [loc EXCEPT !.statements = Append(@, PySlice(q, loc.statement_start, n)),
                        !.statement_start = n]
        ELSE IF character = SQUOTE THEN [loc EXCEPT !.state = INSIDE_SINGLE_QUOTED_STRING]
        ELSE IF character = DQUOTE THEN [loc EXCEPT !.state = INSIDE_DOUBLE_QUOTED_STRING]
        ELSE IF character = TICK /\ PySlice(q, n - 2, n) = <<TICK, TICK>>
             THEN [loc EXCEPT !.state = INSIDE_MULTILINE_STRING]
        ELSE loc
    ELSE IF loc.state = INSIDE_SINGLE_QUOTED_STRING
            /\ character = SQUOTE /\ PyAt(q, n - 1) # BACKSLASH
         THEN [loc EXCEPT !.state = OUTSIDE_STRING]
    ELSE IF loc.state = INSIDE_DOUBLE_QUOTED_STRING
            /\ character = DQUOTE /\ PyAt(q, n - 1) # BACKSLASH
         THEN [loc EXCEPT !.state = OUTSIDE_STRING]
    ELSE IF loc.state = INSIDE_MULTILINE_STRING
            /\ character = TICK /\ PySlice(q, n - 2, n) = <<TICK, TICK>>
         THEN [loc EXCEPT !.state = OUTSIDE_STRING]
    ELSE loc

\* One iteration of the for loop: character n (0-based) of q.
KqlStep(q, n, loc) ==
    LET character == PyAt(q, n) IN
    IF loc.state = OUTSIDE_STRING THEN
        IF character = SEMI THEN
            [loc EXCEPT !.statements = Append(@, PySlice(q, loc.statement_start, n)),
                        !.statement_start = n + 1]
        ELSE IF character = SQUOTE THEN [loc EXCEPT !.state = INSIDE_SINGLE_QUOTED_STRING]
        ELSE IF character = DQUOTE THEN [loc EXCEPT !.state = INSIDE_DOUBLE_QUOTED_STRING]
        ELSE IF character = TICK /\ PySlice(q, n - 2, n) = <<TICK, TICK>>
             THEN [loc EXCEPT !.state = INSIDE_MULTILINE_STRING]
        ELSE loc
    ELSE IF loc.state = INSIDE_SINGLE_QUOTED_STRING
            /\ character = SQUOTE /\ PyAt(q, n - 1) # BACKSLASH
         THEN [loc EXCEPT !.state = OUTSIDE_STRING]
    ELSE IF loc.state = INSIDE_DOUBLE_QUOTED_STRING
            /\ character = DQUOTE /\ PyAt(q, n - 1) # BACKSLASH
         THEN [loc EXCEPT !.state = OUTSIDE_STRING]
    ELSE IF loc.state = INSIDE_MULTILINE_STRING
            /\ character = TICK /\ PySlice(q, n - 2, n) = <<TICK, TICK>>
         THEN [loc EXCEPT !.state = OUTSIDE_STRING]
    ELSE loc

\* The whole loop from character n on.
RECURSIVE ScanFrom(_, _, _)
ScanFrom(q, n, loc) ==
    IF n >= Len(q) THEN loc ELSE ScanFrom(q, n + 1, KqlStep(q, n, loc))

\* split_kql as a function of its argument.
split_kql(text) == ScanFrom(WithSeparator(text), 0, ScanStart).statements


(***************************************************************************)
(* Table (parse.py:94-118)                                                 *)
(***************************************************************************)

\* The characters urllib.parse.quote never escapes: letters, digits, "_.-~".
AlwaysSafe == {"a", "b", "c", "s", "t", "2", "5", "E", "0", ".", "_", "-", "~"}

\* The two hexadecimal digits quote writes after "%" for the characters that
\* the model uses outside AlwaysSafe.
HexOf(c) ==
    CASE c = "%" -> <<"2", "5">>
      [] c = " " -> <<"2", "0">>
      [] c = ";" -> <<"3", "B">>
      [] OTHER -> <<"?", "?">>

\* urllib.parse.quote(part, safe="")
RECURSIVE Quote(_)
Quote(part) ==
    IF part = <<>> THEN <<>>
    ELSE (IF part[1] \in AlwaysSafe THEN <<part[1]>> ELSE <<"%">> \o HexOf(part[1]))
         \o Quote(Tail(part))

\* text.replace(".", "%2E")
RECURSIVE ReplaceDot(_)
ReplaceDot(text) ==
    IF text = <<>> THEN <<>>
    ELSE (IF text[1] = "." THEN <<"%", "2", "E">> ELSE <<text[1]>>) \o ReplaceDot(Tail(text))

\* Table(table, schema, catalog)
Table(table, schema, catalog) == [table |-> table, schema |-> schema, catalog |-> catalog]

\* `if part`: None and the empty string are both skipped.
Truthy(part) == part # None /\ part # <<>>

\* The parts a Table's string is made of, in order.
RECURSIVE Keep(_)
Keep(parts) ==
    IF parts = <<>> THEN <<>>
    ELSE (IF Truthy(parts[1]) THEN <<parts[1]>> ELSE <<>>) \o Keep(Tail(parts))

\* Table.__str__
TableStr(t) ==
    LET parts == Keep(<<t.catalog, t.schema, t.table>>)
    IN  Join([n \in 1..Len(parts) |-> ReplaceDot(Quote(parts[n]))], <<".">>)

\* Table.__eq__
TableEq(t, other) == TableStr(t) = TableStr(other)

\* Table.__hash__: the one @dataclass(eq=True, frozen=True) generates, the hash
\* of the tuple of the fields.  Two hashes are equal when the tuples are.
TableHash(t) == <<t.table, t.schema, t.catalog>>

\* set.add: an element is not added when the set holds one with the same hash
\* that compares equal to it.
SetAdd(set, t) ==
    IF \E e \in set : TableHash(e) = TableHash(t) /\ TableEq(e, t) THEN set ELSE set \cup {t}

\* set(elements)
RECURSIVE SetOf(_)
SetOf(elements) ==
    IF elements = {} THEN {}
    ELSE LET e == CHOOSE x \in elements : TRUE
         IN  SetAdd(SetOf(elements \ {e}), e)

MaxPartLen == 1
MaxSetSize == 2

PartChars == {"a", ".", "%"}
PartTexts == SeqsUpTo(PartChars, MaxPartLen)

\* The Table values the model builds sets of: a table name that is present,
\* a schema and a catalog that are None, empty or present.
Tables ==
    {Table(t, s, c) : t \in PartTexts \ {<<>>},
                      s \in PartTexts \cup {None}, c \in PartTexts \cup {None}}

\* A Table is added to the set.
TableSetAdd ==
    /\ Cardinality(tableSet) < MaxSetSize
    /\ \E t \in Tables : tableSet' = SetAdd(tableSet, t)
    /\ UNCHANGED notTable

\* The set is emptied.
TableSetClear ==
    /\ tableSet # {}
    /\ tableSet' = {}
    /\ UNCHANGED notTable

(***************************************************************************)
(* extract_tables_from_statement and is_cte (parse.py:560-630)             *)
(***************************************************************************)

\* An exp.Table node: its name, db and catalog ("" when not given).
TableNode(name, db, catalog) ==
    [node |-> "Table", name |-> name, db |-> db, catalog |-> catalog]

\* A Scope object bound as a source: only its scope_type is read.
ScopeSource(scope_type) == [node |-> "Scope", scope_type |-> scope_type]

CTE == "CTE"
SUBQUERY == "SUBQUERY"

\* A name a scope does not bind.
Unbound == [node |-> "Unbound"]

\* isinstance(source, exp.Table)
IsTable(source) == source.node = "Table"

\* is_cte(source, scope); scopes is the list scope.parent indexes (0: no parent).
is_cte(source, scope, scopes) ==
    LET parent_sources ==
            IF scope.parent # 0 THEN scopes[scope.parent].sources ELSE [n \in {} |-> Unbound]
        ctes_in_scope ==
            {name \in DOMAIN parent_sources :
                /\ parent_sources[name].node = "Scope"
                /\ parent_sources[name].scope_type = CTE}
    IN  source.name \in ctes_in_scope

\* Lines 594-599: the sources of a general query, each with the scope and the
\* key it was bound under.
QuerySources(scopes) ==
    {[scope |-> n, key |-> k, node |-> scopes[n].sources[k]] :
        <<n, k>> \in {<<m, j>> \in (DOMAIN scopes) \X UNION {DOMAIN scopes[m].sources : m \in DOMAIN scopes} :
                        /\ j \in DOMAIN scopes[m].sources
                        /\ IsTable(scopes[m].sources[j])
                        /\ ~is_cte(scopes[m].sources[j], scopes[m], scopes)}}

\* statement.find_all(exp.Table), for the statements that have no scopes.
FoundTables(nodes) == {[scope |-> 0, key |-> None, node |-> t] : t \in nodes}

\* Lines 601-608: a source as a Table, "" normalised to None.
TableOf(source) ==
    Table(source.name,
          IF source.db # <<>> THEN source.db ELSE None,
          IF source.catalog # <<>> THEN source.catalog ELSE None)

NumScopes == 3
MaxSources == 3
MaxNodes == 2

Names == {<<"a">>, <<"b">>}
Qualifiers == {<<>>, <<"s">>}
TableNodes == {TableNode(n, d, c) : n \in Names, d \in Qualifiers, c \in Qualifiers}
Sources == TableNodes \cup {ScopeSource(CTE), ScopeSource(SUBQUERY)}
Slots(scopes) == (DOMAIN scopes) \X Names

\* The scope trees of a general query with num scopes: scope 1 is the root,
\* every other scope has an earlier scope as its parent, and at most bound
\* names are bound in all.
ScopeTrees(num, bound) ==
    {[n \in 1..num |->
        [parent |-> par[n],
         sources |-> [k \in Names |-> IF <<n, k>> \in DOMAIN f THEN f[<<n, k>>] ELSE Unbound]]] :
        par \in {p \in [1..num -> 0..num] : p[1] = 0 /\ \A n \in 2..num : p[n] \in 1..(n - 1)},
        f \in UNION {[S -> Sources] :
                        S \in {T \in SUBSET ((1..num) \X Names) : Cardinality(T) <= bound}}}

\* The statements extraction is run on.  A DESCRIBE carries the Table nodes of
\* its tree; a command carries its literal, which is absent, unparseable, or
\* parses to a query with some Table nodes.
Describes(max) ==
    {[kind |-> "Describe", scopes |-> <<>>, nodes |-> ns, literal |-> "absent"] :
        ns \in {T \in SUBSET TableNodes : Cardinality(T) <= max}}
Commands(max) ==
    {[kind |-> "Command", scopes |-> <<>>, nodes |-> ns, literal |-> l] :
        ns \in {T \in SUBSET TableNodes : Cardinality(T) <= max},
        l \in {"absent", "unparseable", "parsed"}}
Queries(num, bound) ==
    {[kind |-> "Query", scopes |-> t, nodes |-> {}, literal |-> "absent"] :
        t \in ScopeTrees(num, bound)}
Statements(num, bound, max) == Queries(num, bound) \cup Describes(max) \cup Commands(max)

\* extract_tables_from_statement: the list `sources` and the returned set.
extract_tables_from_statement(stmt) ==
    LET srcs ==
            IF stmt.kind = "Describe" THEN FoundTables(stmt.nodes)
            ELSE IF stmt.kind = "Command"
                 THEN (IF stmt.literal = "parsed" THEN FoundTables(stmt.nodes) ELSE {})
            ELSE QuerySources(stmt.scopes)
    IN  [sources |-> srcs, tables |-> SetOf({TableOf(src.node) : src \in srcs})]

\* Lines 577-580: a DESCRIBE.
ExtractDescribe ==
    /\ xpc = "start"
    /\ statement.kind = "Describe"
    /\ sources' = extract_tables_from_statement(statement).sources
    /\ tables' = extract_tables_from_statement(statement).tables
    /\ xpc' = "done"
    /\ UNCHANGED statement
    /\ UNCHANGED notExtract

\* Lines 581-592: a command.
ExtractCommand ==
    /\ xpc = "start"
    /\ statement.kind = "Command"
    /\ sources' = extract_tables_from_statement(statement).sources
    /\ tables' = extract_tables_from_statement(statement).tables
    /\ xpc' = "done"
    /\ UNCHANGED statement
    /\ UNCHANGED notExtract

\* Lines 593-608: a general query.
ExtractQuery ==
    /\ xpc = "start"
    /\ statement.kind = "Query"
    /\ sources' = extract_tables_from_statement(statement).sources
    /\ tables' = extract_tables_from_statement(statement).tables
    /\ xpc' = "done"
    /\ UNCHANGED statement
    /\ UNCHANGED notExtract

(***************************************************************************)
(* The splitter, one loop iteration per step.                              *)
(***************************************************************************)

MaxKqlLen == 4
MaxFenceLen == 7

KqlChars == {SEMI, SQUOTE, DQUOTE, TICK, BACKSLASH, "a", " "}
FenceChars == {TICK, SEMI, "a"}

\* The texts the splitter is run on: every short text over the characters the
\* scanner distinguishes, and longer texts over the fence characters.
KqlTexts(len, fence) == SeqsUpTo(KqlChars, len) \cup SeqsUpTo(FenceChars, fence)

\* Lines 376-379: the locals are set and the separator appended.
SplitBegin ==
    /\ pc = "start"
    /\ query' = WithSeparator(kql)
    /\ statements' = ScanStart.statements
    /\ state' = ScanStart.state
    /\ statement_start' = ScanStart.statement_start
    /\ i' = 0
    /\ pc' = "loop"
    /\ UNCHANGED kql
    /\ UNCHANGED notSplit

\* Lines 380-411: one iteration of the loop.
SplitChar ==
    /\ pc = "loop"
    /\ i < Len(query)
    /\ LET loc == KqlStep(query, i,
                          [state |-> state, statement_start |-> statement_start,
                           statements |-> statements])
       IN  /\ state' = loc.state
           /\ statement_start' = loc.statement_start
           /\ statements' = loc.statements
    /\ i' = i + 1
    /\ UNCHANGED <<kql, query, pc>>
    /\ UNCHANGED notSplit

\* Line 413: return statements.
SplitReturn ==
    /\ pc = "loop"
    /\ i = Len(query)
    /\ pc' = "done"
    /\ UNCHANGED <<kql, query, i, state, statement_start, statements>>
    /\ UNCHANGED notSplit

(***************************************************************************)
(* The constructors: BaseSQLStatement.__init__ with                        *)
(* KustoKQLStatement._parse_statement and SQLStatement._parse_statement    *)
(***************************************************************************)

NOT_SINGLE == "SQLStatement should have exactly one statement"
\* f"Invalid engine: {engine}"
INVALID_ENGINE(e) == "Invalid engine: " \o e
UNABLE_TO_SPLIT == "Unable to split query"
NO_ERROR == "none"

\* What sqlglot.parse returns for a unit of the text that holds no statement.
EmptyUnit == [kind |-> "None", scopes |-> <<>>, nodes |-> {}, literal |-> "absent"]

\* What sqlglot.parse does: it raises ParseError, or returns a list of units.
ParseError == [raised |-> TRUE, list |-> <<>>]
Units(list) == [raised |-> FALSE, list |-> list]

\* [statement for statement in statements if statement]
RECURSIVE NonEmpty(_)
NonEmpty(us) ==
    IF us = <<>> THEN <<>>
    ELSE (IF us[1] # EmptyUnit THEN <<us[1]>> ELSE <<>>) \o NonEmpty(Tail(us))

\* KustoKQLStatement._parse_statement(statement, engine)
KqlParse(t, e) ==
    LET segments == split_kql(t) IN
    IF e # "kustokql" THEN [error |-> INVALID_ENGINE(e), parsed |-> None]
    ELSE IF Len(segments) # 1 THEN [error |-> NOT_SINGLE, parsed |-> None]
    ELSE [error |-> NO_ERROR, parsed |-> Strip(segments[1])]

\* SQLStatement._parse_statement, given what sqlglot.parse(statement) gives.
SqlParse(result) ==
    IF result.raised THEN [error |-> UNABLE_TO_SPLIT, parsed |-> EmptyUnit]
    ELSE IF Len(NonEmpty(result.list)) # 1 THEN [error |-> NOT_SINGLE, parsed |-> EmptyUnit]
    ELSE [error |-> NO_ERROR, parsed |-> NonEmpty(result.list)[1]]

MaxUnits == 3

Engines == {"kustokql", "postgresql"}

\* The statements sqlglot.parse returns in the model of the constructor.
UnitStatements == Describes(1)

\* What sqlglot.parse returns: a parse error, or a list of at most max units.
ParseResults(max) ==
    {ParseError} \cup {Units(l) : l \in SeqsUpTo(UnitStatements \cup {EmptyUnit}, max)}

\* KustoKQLStatement(text, engine)
KustoKQLStatementInit ==
    /\ cpc = "start"
    /\ cls = "KustoKQLStatement"
    /\ parsed' = KqlParse(statement_text, engine).parsed
    /\ error' = KqlParse(statement_text, engine).error
    /\ stmt_tables' = {}
    /\ cpc' = "done"
    /\ UNCHANGED <<cls, engine, statement_text, units>>
    /\ UNCHANGED notInit

\* SQLStatement(text, engine)
SQLStatementInit ==
    /\ cpc = "start"
    /\ cls = "SQLStatement"
    /\ parsed' = SqlParse(units).parsed
    /\ error' = SqlParse(units).error
    /\ stmt_tables' = IF SqlParse(units).error = NO_ERROR
                      THEN extract_tables_from_statement(SqlParse(units).parsed).tables
                      ELSE {}
    /\ cpc' = "done"
    /\ UNCHANGED <<cls, engine, statement_text, units>>
    /\ UNCHANGED notInit

(***************************************************************************)
(* SQLStatement.is_mutating (parse.py:298-333)                             *)
(***************************************************************************)

POSTGRES == "POSTGRES"
MYSQL == "MYSQL"
NoDialect == "None"

\* The mapping between DB engine specs and sqlglot dialects (lines 40-91).
DialectTable ==
    [
     ascend |-> "HIVE",
     awsathena |-> "PRESTO",
     bigquery |-> "BIGQUERY",
     clickhouse |-> "CLICKHOUSE",
     clickhousedb |-> "CLICKHOUSE",
     cockroachdb |-> "POSTGRES",
     couchbase |-> "MYSQL",
     databricks |-> "DATABRICKS",
     drill |-> "DRILL",
     duckdb |-> "DUCKDB",
     gsheets |-> "SQLITE",
     hana |-> "POSTGRES",
     hive |-> "HIVE",
     mssql |-> "TSQL",
     mysql |-> "MYSQL",
     netezza |-> "POSTGRES",
     oracle |-> "ORACLE",
     postgresql |-> "POSTGRES",
     presto |-> "PRESTO",
     pydoris |-> "DORIS",
     redshift |-> "REDSHIFT",
     shillelagh |-> "SQLITE",
     snowflake |-> "SNOWFLAKE",
     spark |-> "SPARK",
     sqlite |-> "SQLITE",
     starrocks |-> "STARROCKS",
     superset |-> "SQLITE",
     teradatasql |-> "TERADATA",
     trino |-> "TRINO",
     vertica |-> "POSTGRES"
    ]

\* SQLGLOT_DIALECTS.get(engine)
SQLGLOT_DIALECTS(e) ==
    IF e \in DOMAIN DialectTable THEN DialectTable[e] ELSE NoDialect

MutatingNodes == {"Insert", "Update", "Delete", "Merge", "Create", "Drop", "TruncateTable"}

\* str.upper(), on the first words of a command's text the model uses.
Upper(word) ==
    CASE word = "analyze " -> "ANALYZE "
      [] word = "Analyze " -> "ANALYZE "
      [] OTHER -> word

\* A statement the walk of which yields its root and, for a statement that is
\* not a command, at most one more node kind (child).  A command has a name
\* and the text of its expression: a first word with the blank after it, and
\* a rest, given by what SQLStatement(rest, engine) makes of it (inner).
NoInner == [outcome |-> "none"]
Raises == [outcome |-> "raises"]
Parsed(a) == [outcome |-> "parsed", ast |-> a]

\* for node in self._parsed.walk(): ... return True
WalkFindsMutation(a) ==
    \/ a.root \in MutatingNodes
    \/ a.child \in MutatingNodes
    \/ a.root = "Command" /\ a.name = "ALTER"

\* Mutant of is_mutating: the EXPLAIN ANALYZE case is not gated by the dialect.
RECURSIVE is_mutating_any_dialect(_, _)
is_mutating_any_dialect(a, dialect) ==
    IF WalkFindsMutation(a) THEN [result |-> "True", constructed |-> 0]
    ELSE IF /\ a.root = "Command"
            /\ a.name = "EXPLAIN"
            /\ Upper(a.first) = "ANALYZE "
         THEN IF a.inner.outcome = "parsed"
              THEN LET r == is_mutating_any_dialect(a.inner.ast, dialect)
                   IN  [result |-> r.result, constructed |-> r.constructed + 1]
              ELSE [result |-> "Raises", constructed |-> 0]
    ELSE [result |-> "False", constructed |-> 0]

\* is_mutating, with the number of statements SQLStatement(...) built.
RECURSIVE is_mutating(_, _)
is_mutating(a, dialect) ==
    IF WalkFindsMutation(a) THEN [result |-> "True", constructed |-> 0]
    ELSE IF /\ dialect = POSTGRES
            /\ a.root = "Command"
            /\ a.name = "EXPLAIN"
            /\ Upper(a.first) = "ANALYZE "
         THEN IF a.inner.outcome = "parsed"
              THEN LET r == is_mutating(a.inner.ast, dialect)
                   IN  [result |-> r.result, constructed |-> r.constructed + 1]
              ELSE [result |-> "Raises", constructed |-> 0]
    ELSE [result |-> "False", constructed |-> 0]

MaxDepth == 2

RootNodes == MutatingNodes \cup {"Select"}
ChildNodes == {"none", "Select", "Drop"}
CommandNames == {"ALTER", "EXPLAIN", "SHOW"}
FirstWords == {"ANALYZE ", "analyze ", "VERBOSE "}
MutatingEngines == {"postgresql", "hana", "mysql", "druid"}

\* The statements with at most d commands nested in one another.
RECURSIVE Asts(_)
Asts(d) ==
    {[root |-> r, child |-> c, name |-> "", first |-> "", inner |-> NoInner] :
        r \in RootNodes, c \in ChildNodes}
    \cup {[root |-> "Command", child |-> "none", name |-> n, first |-> w, inner |-> x] :
            n \in CommandNames, w \in FirstWords,
            x \in {Raises} \cup (IF d = 0 THEN {} ELSE {Parsed(a) : a \in Asts(d - 1)})}

NoAst == [root |-> "none", child |-> "none", name |-> "", first |-> "", inner |-> NoInner]

\* statement.is_mutating()
IsMutating ==
    /\ mpc = "start"
    /\ mutating' = is_mutating(ast, SQLGLOT_DIALECTS(ast_engine)).result
    /\ constructed' = is_mutating(ast, SQLGLOT_DIALECTS(ast_engine)).constructed
    /\ mpc' = "done"
    /\ UNCHANGED <<ast, ast_engine>>
    /\ UNCHANGED notMutating

(***************************************************************************)
(* SQLScript.get_settings (parse.py:536-549)                               *)
(***************************************************************************)

EmptyDict == [k \in {} |-> ""]

\* Mutant of Update: the keys the dict already holds are kept.
UpdateKeepFirst(d, other) ==
    [k \in DOMAIN d \cup DOMAIN other |-> IF k \in DOMAIN d THEN d[k] ELSE other[k]]

\* dict.update(other)
Update(d, other) ==
    [k \in DOMAIN d \cup DOMAIN other |-> IF k \in DOMAIN other THEN other[k] ELSE d[k]]

\* statement.get_settings(): the dict of the statement's assignments, in the
\* order the dict comprehension meets them (parse.py:351-355; the one pair of
\* the textual variant, parse.py:495-499).
RECURSIVE StatementSettings(_)
StatementSettings(pairs) ==
    IF pairs = <<>> THEN EmptyDict
    ELSE Update(StatementSettings(SubSeq(pairs, 1, Len(pairs) - 1)),
                [k \in {pairs[Len(pairs)][1]} |-> pairs[Len(pairs)][2]])

MaxStatements == 3
MaxPairs == 1

Keys == {"foo", "bar"}
Values == {"'bar'", "'baz'"}

\* A statement is given by its assignments; a script is a list of statements.
Scripts(max, pairs) == SeqsUpTo(SeqsUpTo(Keys \X Values, pairs), max)

\* Line 545: settings = {}
SettingsBegin ==
    /\ spc = "start"
    /\ settings' = EmptyDict
    /\ idx' = 1
    /\ spc' = "loop"
    /\ UNCHANGED script
    /\ UNCHANGED notSettings

\* Lines 546-547: one iteration of the loop.
SettingsUpdate ==
    /\ spc = "loop"
    /\ idx <= Len(script)
    /\ settings' = Update(settings, StatementSettings(script[idx]))
    /\ idx' = idx + 1
    /\ UNCHANGED <<script, spc>>
    /\ UNCHANGED notSettings

\* Line 549: return settings
SettingsReturn ==
    /\ spc = "loop"
    /\ idx > Len(script)
    /\ spc' = "done"
    /\ UNCHANGED <<script, settings, idx>>
    /\ UNCHANGED notSettings

(***************************************************************************)
(* KustoKQLStatement.split_query (parse.py:433-446)                        *)
(***************************************************************************)

\* Line 446: split_kql(query) is evaluated.
SplitQuerySplit ==
    /\ qpc = "start"
    /\ kql_statements' = split_kql(split_text)
    /\ seg' = 1
    /\ qpc' = "loop"
    /\ UNCHANGED <<split_text, split_engine, built, split_error>>
    /\ UNCHANGED notSplitQuery

\* Line 446: cls(statement, engine) for the next segment; the constructor
\* (lines 148-159) parses the segment and an error it raises ends the call.
SplitQueryConstruct ==
    /\ qpc = "loop"
    /\ seg <= Len(kql_statements)
    /\ LET made == KqlParse(kql_statements[seg], split_engine) IN
       IF made.error = NO_ERROR
       THEN /\ built' = Append(built, made.parsed)
            /\ seg' = seg + 1
            /\ UNCHANGED <<split_error, qpc>>
       ELSE /\ split_error' = made.error
            /\ qpc' = "raised"
            /\ UNCHANGED <<built, seg>>
    /\ UNCHANGED <<split_text, split_engine, kql_statements>>
    /\ UNCHANGED notSplitQuery

\* Line 446: the list of statements is returned.
SplitQueryReturn ==
    /\ qpc = "loop"
    /\ seg > Len(kql_statements)
    /\ qpc' = "done"
    /\ UNCHANGED <<split_text, split_engine, kql_statements, built, split_error, seg>>
    /\ UNCHANGED notSplitQuery

(***************************************************************************)
(* The specifications, one per component.                                  *)
(***************************************************************************)

\* The state after the arguments of component c are chosen; the variables of
\* the other components are idle.
Start(c) ==
    /\ kql \in (IF c = "split" THEN KqlTexts(MaxKqlLen, MaxFenceLen) ELSE {<<>>})
    /\ query = <<>>
    /\ i = 0
    /\ state = OUTSIDE_STRING
    /\ statement_start = 0
    /\ statements = <<>>
    /\ pc = (IF c = "split" THEN "start" ELSE "idle")
    /\ tableSet = {}
    /\ statement \in (IF c = "extract" THEN Statements(NumScopes, MaxSources, MaxNodes) ELSE {EmptyUnit})
    /\ sources = {}
    /\ tables = {}
    /\ xpc = (IF c = "extract" THEN "start" ELSE "idle")
    /\ cls \in (IF c = "init" THEN {"KustoKQLStatement", "SQLStatement"} ELSE {"none"})
    /\ engine \in (IF c = "init" THEN Engines ELSE {"none"})
    /\ statement_text \in (IF cls = "KustoKQLStatement" THEN SeqsUpTo(KqlChars, MaxKqlLen) ELSE {<<>>})
    /\ units \in (IF cls = "SQLStatement" THEN ParseResults(MaxUnits) ELSE {Units(<<>>)})
    /\ parsed = None
    /\ stmt_tables = {}
    /\ error = NO_ERROR
    /\ cpc = (IF c = "init" THEN "start" ELSE "idle")
    /\ ast \in (IF c = "mutating" THEN Asts(MaxDepth) ELSE {NoAst})
    /\ ast_engine \in (IF c = "mutating" THEN MutatingEngines ELSE {"none"})
    /\ mutating = "none"
    /\ constructed = 0
    /\ mpc = (IF c = "mutating" THEN "start" ELSE "idle")
    /\ script \in (IF c = "settings" THEN Scripts(MaxStatements, MaxPairs) ELSE {<<>>})
    /\ settings = EmptyDict
    /\ idx = 0
    /\ spc = (IF c = "settings" THEN "start" ELSE "idle")
    /\ split_text \in (IF c = "split_query" THEN KqlTexts(MaxKqlLen, MaxFenceLen) ELSE {<<>>})
    /\ split_engine \in (IF c = "split_query" THEN Engines ELSE {"none"})
    /\ kql_statements = <<>>
    /\ built = <<>>
    /\ split_error = NO_ERROR
    /\ seg = 0
    /\ qpc = (IF c = "split_query" THEN "start" ELSE "idle")

SplitInit == Start("split")
SplitNext == SplitBegin \/ SplitChar \/ SplitReturn
SpecSplit == SplitInit /\ [][SplitNext]_vars

TableInit == Start("table")
TableNext == TableSetAdd \/ TableSetClear
SpecTable == TableInit /\ [][TableNext]_vars

ExtractInit == Start("extract")
ExtractNext == ExtractDescribe \/ ExtractCommand \/ ExtractQuery
SpecExtract == ExtractInit /\ [][ExtractNext]_vars

StatementInit == Start("init")
StatementNext == KustoKQLStatementInit \/ SQLStatementInit
SpecStatement == StatementInit /\ [][StatementNext]_vars

MutatingInit == Start("mutating")
MutatingNext == IsMutating
SpecMutating == MutatingInit /\ [][MutatingNext]_vars

SettingsInit == Start("settings")
SettingsNext == SettingsBegin \/ SettingsUpdate \/ SettingsReturn
SpecSettings == SettingsInit /\ [][SettingsNext]_vars

SplitQueryInit == Start("split_query")
SplitQueryNext == SplitQuerySplit \/ SplitQueryConstruct \/ SplitQueryReturn
SpecSplitQuery == SplitQueryInit /\ [][SplitQueryNext]_vars

(***************************************************************************)
(* What the claims about the splitter speak of, stated over the text alone. *)
(***************************************************************************)

\* The literal the reader is in after the first k characters of text.
RECURSIVE LiteralAfter(_, _)
LiteralAfter(text, k) ==
    IF k = 0 THEN "outside"
    ELSE LET before == LiteralAfter(text, k - 1)
             c == text[k]
             escaped == k > 1 /\ text[k - 1] = BACKSLASH
             fenced == k > 2 /\ c = TICK /\ text[k - 1] = TICK /\ text[k - 2] = TICK
         IN  CASE before = "outside" /\ c = SQUOTE -> "single"
               [] before = "outside" /\ c = DQUOTE -> "double"
               [] before = "outside" /\ fenced -> "multiline"
               [] before = "single" /\ c = SQUOTE /\ ~escaped -> "outside"
               [] before = "double" /\ c = DQUOTE /\ ~escaped -> "outside"
               [] before = "multiline" /\ fenced -> "outside"
               [] OTHER -> before

\* The positions (1-based) of the separators of text outside any literal.
TopLevelSeparators(text) ==
    {k \in 1..Len(text) : text[k] = SEMI /\ LiteralAfter(text, k - 1) = "outside"}

\* text ends outside any literal and with something other than a separator.
OpenTail(text) ==
    ~EndsWith(text, SEMI) /\ LiteralAfter(text, Len(text)) = "outside"

\* The pieces of text between the consecutive cuts of a set of positions.
RECURSIVE Pieces(_, _, _)
Pieces(text, from, cuts) ==
    IF cuts = {} THEN <<>>
    ELSE LET c == CHOOSE x \in cuts : \A y \in cuts : x <= y
         IN  <<SubSeq(text, from, c - 1)>> \o Pieces(text, c + 1, cuts \ {c})

\* C3 as stated: when split_kql returns, it returns exactly n+1 segments for
\* a text with n separators outside any string literal.
C3_NPlusOneSegments ==
    pc = "done" => Len(statements) = Cardinality(TopLevelSeparators(kql)) + 1

\* C3, amended: split_kql returns the pieces of the text between its
\* separators outside any literal, in source order: n+1 of them when the text
\* ends outside any literal and not with a separator, and n of them otherwise
\* (the text ends with a separator, or inside a literal that is never closed).
C3_SegmentsPerSeparator ==
    pc = "done" =>
        /\ statements =
              Pieces(kql, 1, TopLevelSeparators(kql)
                               \cup (IF OpenTail(kql) THEN {Len(kql) + 1} ELSE {}))
        /\ Len(statements) =
              Cardinality(TopLevelSeparators(kql)) + (IF OpenTail(kql) THEN 1 ELSE 0)

\* C3 witness: a text with one separator outside any literal and one inside a
\* literal, not ending with a separator, was split in two segments.
C3_Witness ==
    /\ pc = "done"
    /\ Cardinality(TopLevelSeparators(kql)) = 1
    /\ \E k \in 1..Len(kql) : kql[k] = SEMI /\ k \notin TopLevelSeparators(kql)
    /\ OpenTail(kql)
    /\ Len(statements) = 2

\* The character the loop is about to read is a backtick.
ReadingTick == pc = "loop" /\ i < Len(query) /\ PyAt(query, i) = TICK

\* C9 as stated: a double-backtick sequence read in state Outside enters the
\* multi-line literal, and one read inside the multi-line literal leaves it.
C9_DoubleBacktickFence ==
    [][(ReadingTick /\ i >= 1 /\ PyAt(query, i - 1) = TICK)
          => /\ state = OUTSIDE_STRING => state' = INSIDE_MULTILINE_STRING
             /\ state = INSIDE_MULTILINE_STRING => state' = OUTSIDE_STRING]_vars

\* C9, amended: the fence is a triple backtick.  A backtick whose two
\* preceding characters are backticks enters the multi-line literal when read
\* in state Outside and leaves it when read inside it; any other backtick
\* (a double-backtick sequence included) changes no state; and a ';' read
\* inside the multi-line literal changes nothing: it ends no segment.
C9_TripleBacktickFence ==
    [][/\ (ReadingTick /\ i >= 2 /\ PyAt(query, i - 1) = TICK /\ PyAt(query, i - 2) = TICK)
          => /\ state = OUTSIDE_STRING => state' = INSIDE_MULTILINE_STRING
             /\ state = INSIDE_MULTILINE_STRING => state' = OUTSIDE_STRING
       /\ (ReadingTick /\ ~(i >= 2 /\ PyAt(query, i - 1) = TICK /\ PyAt(query, i - 2) = TICK))
          => state' = state
       /\ (pc = "loop" /\ i < Len(query) /\ PyAt(query, i) = SEMI
             /\ state = INSIDE_MULTILINE_STRING)
          => /\ state' = state
             /\ statements' = statements
             /\ statement_start' = statement_start]_vars

\* C9 witness: a ';' between two triple-backtick fences was read and the
\* whole text came back as one segment.
C9_Witness ==
    /\ pc = "done"
    /\ kql = <<TICK, TICK, TICK, SEMI, TICK, TICK, TICK>>
    /\ state = OUTSIDE_STRING
    /\ statements = <<kql>>

\* C10 as stated: the segments joined with ';' give back the input, up to one
\* trailing ';'.
C10_NoTextLost ==
    pc = "done" =>
        \/ Join(statements, <<SEMI>>) = kql
        \/ Join(statements, <<SEMI>>) \o <<SEMI>> = kql

(***************************************************************************)
(* The claims about the constructors.                                      *)
(***************************************************************************)

\* The statements a text holds: for the textual variant, the pieces between
\* its separators outside any literal that are not blank; for the
\* grammar-backed variant, the units of the parse that are not empty.
StatementsIn ==
    IF cls = "KustoKQLStatement"
    THEN Len(SelectSeq(Pieces(statement_text, 1,
                              TopLevelSeparators(statement_text) \cup {Len(statement_text) + 1}),
                       LAMBDA piece : Strip(piece) # <<>>))
    ELSE Len(NonEmpty(units.list))

\* C4 as stated: a Statement is built only from a text that holds exactly one
\* statement; a text that holds none (empty, blank, only a separator) or more
\* than one is refused with the not-single-statement error.
C4_ExactlyOneStatement ==
    cpc = "done" =>
        /\ error = NO_ERROR => StatementsIn = 1
        /\ (StatementsIn # 1 /\ error \notin {INVALID_ENGINE(engine), UNABLE_TO_SPLIT})
              => error = NOT_SINGLE

(***************************************************************************)
(* The claims about Table.                                                  *)
(***************************************************************************)

\* C6 as stated: two Tables compare equal exactly when their canonical strings
\* are equal, two Tables that compare equal have the same hash, and so a set
\* never holds two equal Tables.
C6_EqualityAndHashOverString ==
    \A a \in tableSet : \A b \in tableSet :
        /\ TableEq(a, b) <=> TableStr(a) = TableStr(b)
        /\ TableEq(a, b) => TableHash(a) = TableHash(b)
        /\ TableEq(a, b) => a = b

\* The (catalog, schema, table) triple, an empty part counted as absent.
Triple(t) ==
    <<IF Truthy(t.catalog) THEN t.catalog ELSE None,
      IF Truthy(t.schema) THEN t.schema ELSE None,
      IF Truthy(t.table) THEN t.table ELSE None>>

\* The number of "." in a text.
RECURSIVE Dots(_)
Dots(str) == IF str = <<>> THEN 0 ELSE (IF str[1] = "." THEN 1 ELSE 0) + Dots(Tail(str))

\* C7 as stated: Tables with different triples have different canonical
\* strings and compare unequal, and the "." of the string are the joints of
\* the parts alone.
C7_CanonicalStringUnambiguous ==
    \A a \in tableSet :
        /\ Dots(TableStr(a)) = Len(Keep(<<a.catalog, a.schema, a.table>>)) - 1
        /\ \A b \in tableSet :
              Triple(a) # Triple(b) => (TableStr(a) # TableStr(b) /\ ~TableEq(a, b))

(***************************************************************************)
(* The claims about table extraction.                                       *)
(***************************************************************************)

\* The scopes enclosing scope n: its parent and every further ancestor.
RECURSIVE Enclosing(_, _)
Enclosing(scopes, n) ==
    IF scopes[n].parent = 0 THEN {}
    ELSE {scopes[n].parent} \cup Enclosing(scopes, scopes[n].parent)

\* name is bound to a scope of type CTE in a scope enclosing scope n.
CteInEnclosing(scopes, n, name) ==
    \E m \in Enclosing(scopes, n) :
        /\ name \in DOMAIN scopes[m].sources
        /\ scopes[m].sources[name] = ScopeSource(CTE)

\* The table-shaped references of a general query: scope, key and node.
References(scopes) ==
    {[scope |-> n, key |-> k, node |-> scopes[n].sources[k]] :
        <<n, k>> \in {sl \in Slots(scopes) : IsTable(scopes[sl[1]].sources[sl[2]])}}

\* C1 as stated: in a general query, a table-shaped reference whose short name
\* is bound to a CTE scope in an enclosing scope (the parent or any further
\* ancestor) contributes no Table.
C1_NoCteNameReported ==
    (xpc = "done" /\ statement.kind = "Query") =>
        \A ref \in References(statement.scopes) :
            CteInEnclosing(statement.scopes, ref.scope, ref.node.name) => ref \notin sources

\* C2 as stated: in a general query, every table reference that is not an
\* alias of a CTE is contributed, with its own catalog, schema and name; a
\* reference with a schema or catalog qualifier names a real table and is
\* never left out.
C2_CompleteForAccessControl ==
    (xpc = "done" /\ statement.kind = "Query") =>
        \A ref \in References(statement.scopes) :
            LET qualified == ref.node.db # <<>> \/ ref.node.catalog # <<>>
                cte_alias == /\ ~qualified
                             /\ CteInEnclosing(statement.scopes, ref.scope, ref.node.name)
            IN  ~cte_alias => (ref \in sources /\ TableOf(ref.node) \in tables)

(***************************************************************************)
(* The claim about is_mutating.                                             *)
(***************************************************************************)

\* A top-level EXPLAIN ANALYZE <inner> command.
ExplainAnalyze(a) ==
    /\ a.root = "Command"
    /\ a.name = "EXPLAIN"
    /\ a.first \in {"ANALYZE ", "analyze ", "Analyze "}

\* Some node is an insert, update, delete, merge, create, drop or
\* truncate-table node, or a command named ALTER.
HasMutatingNode(a) ==
    \/ {a.root, a.child} \cap MutatingNodes # {}
    \/ a.root = "Command" /\ a.name = "ALTER"

\* The statement k levels of EXPLAIN ANALYZE down from a (NoAst: there is none).
RECURSIVE Analyzed(_, _)
Analyzed(a, k) ==
    IF k = 0 THEN a
    ELSE IF ExplainAnalyze(a) /\ a.inner.outcome = "parsed" THEN Analyzed(a.inner.ast, k - 1)
    ELSE NoAst

\* C5: is_mutating returns true exactly when the statement has a mutating
\* node, or the dialect is Postgres and the statement is a chain of EXPLAIN
\* ANALYZE commands around a statement with a mutating node; and under a
\* dialect other than Postgres no statement is built to classify it.
C5_MutatingExactly ==
    mpc = "done" =>
        /\ mutating = "True" <=>
              \E k \in 0..MaxDepth :
                  /\ Analyzed(ast, k) # NoAst
                  /\ HasMutatingNode(Analyzed(ast, k))
                  /\ k > 0 => SQLGLOT_DIALECTS(ast_engine) = POSTGRES
        /\ SQLGLOT_DIALECTS(ast_engine) # POSTGRES => constructed = 0

\* C5 witness: under Postgres, EXPLAIN ANALYZE around EXPLAIN ANALYZE around a
\* DELETE was classified as mutating, two statements built on the way.
C5_Witness ==
    /\ mpc = "done"
    /\ ast_engine = "postgresql"
    /\ ExplainAnalyze(ast)
    /\ Analyzed(ast, 1) # NoAst /\ ExplainAnalyze(Analyzed(ast, 1))
    /\ Analyzed(ast, 2) # NoAst /\ Analyzed(ast, 2).root = "Delete"
    /\ mutating = "True"
    /\ constructed = 2

(***************************************************************************)
(* The claim about get_settings.                                            *)
(***************************************************************************)

\* The statements of the script that set key k.
Setters(k) == {n \in 1..Len(script) : k \in DOMAIN StatementSettings(script[n])}

\* C8: get_settings returns, for every key, the value the last statement that
\* sets the key gives it, and no key that no statement sets.
C8_LastSetterWins ==
    spc = "done" =>
        /\ DOMAIN settings = {k \in Keys : Setters(k) # {}}
        /\ \A k \in DOMAIN settings :
              LET last == CHOOSE n \in Setters(k) : \A m \in Setters(k) : m <= n
              IN  settings[k] = StatementSettings(script[last])[k]

\* C8 witness: a key set by two statements to different values came back with
\* the value of the later one.
C8_Witness ==
    /\ spc = "done"
    /\ \E k \in DOMAIN settings : \E m \in Setters(k) : \E n \in Setters(k) :
          /\ m < n
          /\ StatementSettings(script[m])[k] # StatementSettings(script[n])[k]
          /\ settings[k] = StatementSettings(script[n])[k]

(***************************************************************************)
(* Re-splitting                                                            *)
(***************************************************************************)

\* C11: every segment split_kql returned is split again into exactly one
\* segment, itself; hence KustoKQLStatement.split_query with the engine
\* "kustokql" never raises the not-single-statement error, and once it has
\* returned it has built one statement per segment.
C11_ResplitStable ==
    qpc \in {"loop", "raised", "done"} =>
        /\ \A k \in 1..Len(kql_statements) : split_kql(kql_statements[k]) = <<kql_statements[k]>>
        /\ split_engine = "kustokql" => split_error # NOT_SINGLE
        /\ (split_engine = "kustokql" /\ qpc = "done") => Len(built) = Len(kql_statements)

\* C11 witness: a call with the engine "kustokql" has returned, the text was
\* split in several segments, one of them empty and one holding a literal,
\* and every segment went through the constructor.
C11_Witness ==
    /\ qpc = "done"
    /\ split_engine = "kustokql"
    /\ Len(kql_statements) >= 2
    /\ Len(built) = Len(kql_statements)
    /\ \E k \in 1..Len(kql_statements) : kql_statements[k] = <<>>
    /\ \E k \in 1..Len(kql_statements) :
           \E j \in 1..Len(kql_statements[k]) : kql_statements[k][j] \in {SQUOTE, DQUOTE}

====
